---- MODULE Spec2Model ----
(***************************************************************************)
(* Model of app.py, the Streamlit dashboard that browses BPMN diagrams of  *)
(* a GitHub repository, pairs each diagram with its conventional KPI CSV   *)
(* and shows the KPI table.  One script run is a walk of pc through the    *)
(* sections of the file; the widgets' session state, the st.cache_data     *)
(* cache and the upstream repository persist between runs.                 *)
(*                                                                         *)
(* Strings the script takes apart or concatenates (file names, folders,    *)
(* paths, URLs) are sequences of one-character strings.  Values that are   *)
(* only compared (ids, KPI keys, messages) are plain strings.              *)
(***************************************************************************)
EXTENDS Integers, Sequences, FiniteSets, TLC

(***************************************************************************)
(* Bounds of the model.                                                    *)
(***************************************************************************)
\* seconds that pass in one step of the clock while no run is executing
TickStep == 30
\* the nonzero auto-refresh interval the user may enter (0..600 in the code)
SleepSecs == 30

\* most elements of a diagram drawn to exercise the names of its elements
MaxNamed == 4
\* most elements of a diagram drawn to exercise annotations and nesting
MaxNested == 3

\* @st.cache_data(ttl=60)
TTL == 60

(***************************************************************************)
(* Python values.                                                          *)
(***************************************************************************)
NoneVal == [kind |-> "None"]

Ok(v) == [ok |-> TRUE, val |-> v]
Raise(e) == [ok |-> FALSE, err |-> e]

Get(d, k, default) == IF k \in DOMAIN d THEN d[k] ELSE default

Range(s) == {s[i] : i \in 1..Len(s)}

Index(s, x) == CHOOSE i \in 1..Len(s) : s[i] = x /\ \A j \in 1..(i - 1) : s[j] # x

(***************************************************************************)
(* str methods the script uses.                                            *)
(***************************************************************************)
LowerChar(c) ==
    CASE c = "B" -> "b"
      [] c = "P" -> "p"
      [] c = "M" -> "m"
      [] c = "N" -> "n"
      [] OTHER -> c

lower(s) == [i \in 1..Len(s) |-> LowerChar(s[i])]

endswith(s, suffix) ==
    /\ Len(s) >= Len(suffix)
    /\ SubSeq(s, Len(s) - Len(suffix) + 1, Len(s)) = suffix

\* s.split(sep, 1)[0]: the part before the first sep
rsplit_head_AtFirst(s, sep) ==
    IF \E i \in 1..Len(s) : s[i] = sep
    THEN SubSeq(s, 1, (CHOOSE i \in 1..Len(s) :
                          s[i] = sep /\ \A j \in 1..(i - 1) : s[j] # sep) - 1)
    ELSE s

\* s.rsplit(sep, 1)[0] for a one-character sep
rsplit_head(s, sep) ==
    IF \E i \in 1..Len(s) : s[i] = sep
    THEN LET last == CHOOSE i \in 1..Len(s) :
                        s[i] = sep /\ \A j \in (i + 1)..Len(s) : s[j] # sep
         IN SubSeq(s, 1, last - 1)
    ELSE s

(***************************************************************************)
(* Names of the modelled repository.                                       *)
(***************************************************************************)
hr == <<"h", "r">>
finance == <<"f", "i", "n", "a", "n", "c", "e">>
claims == <<"c", "l", "a", "i", "m", "s">>

DEFAULT_FOLDERS == <<hr, finance, claims>>

DotBpmn == <<".", "b", "p", "m", "n">>
KpisCsv == <<"_", "k", "p", "i", "s", ".", "c", "s", "v">>

NameA == <<"a", ".", "b", "p", "m", "n">>
NameB == <<"b", ".", "B", "P", "M", "N">>
NameACsv == <<"a", "_", "k", "p", "i", "s", ".", "c", "s", "v">>
NameReadme == <<"R", "E", "A", "D", "M", "E">>
NameNotes == <<"n", "o", "t", "e", "s", ".", "t", "x", "t">>

Slash == <<"/">>

PathA == hr \o Slash \o NameA
PathB == hr \o Slash \o NameB
PathACsv == hr \o Slash \o NameACsv

File(n) == [name |-> n, type |-> "file"]
Dir(n) == [name |-> n, type |-> "dir"]

(***************************************************************************)
(* Diagram documents.  A document is the text of a .bpmn file, kept as     *)
(* what ElementTree makes of it: wf says whether it is well-formed XML,    *)
(* els lists the elements below bpmn:process in document order.  An        *)
(* element has its attributes (attrs, a function from the attribute names  *)
(* present), the index of its parent element in els (0: a child of the     *)
(* process) and the camunda:property entries of its own extensionElements  *)
(* (props); extensionElements come before an element's child elements.     *)
(***************************************************************************)
NsName == "{http://www.omg.org/spec/BPMN/20100524/MODEL}name"

Prop(n, v) == [name |-> n, value |-> v]

Xml(w, e) == [kind |-> "xml", wf |-> w, els |-> e]

DocMalformed == Xml(FALSE, <<>>)

DocAnnotated ==
    Xml(TRUE,
        << [attrs |-> [id |-> "t1", name |-> "Screen"], parent |-> 0,
            props |-> <<Prop("kpi_key", "a"), Prop("owner", "X")>>],
           [attrs |-> [id |-> "t2"], parent |-> 0,
            props |-> <<Prop("kpi_key", "b"), Prop("owner", "Y")>>] >>)

\* hr/b.BPMN: a diagram with no annotation
DocPlain ==
    Xml(TRUE, << [attrs |-> [id |-> "start", name |-> "Apply"], parent |-> 0, props |-> <<>>] >>)

\* the texts hr/a.bpmn may hold upstream
Docs == {DocMalformed, DocAnnotated}

\* the id attribute of the element at a position of a drawn diagram
ElementIds == <<"e1", "e2", "e3", "e4", "e5">>

\* the attributes of an element, by what it does for its name: a name
\* attribute, the namespace-qualified name attribute, none, or a name but no id
NameKinds == {"unnamed", "A", "B", "C", "qualifiedA", "noid"}

NamedAttrs(i, k) ==
    CASE k = "unnamed" -> [id |-> ElementIds[i]]
      [] k = "qualifiedA" -> ("id" :> ElementIds[i]) @@ (NsName :> "A")
      [] k = "noid" -> [name |-> "A"]
      [] OTHER -> [id |-> ElementIds[i], name |-> k]

\* the flat diagrams of at most MaxNamed elements over NameKinds
NamedDocs ==
    { Xml(TRUE, [i \in 1..Len(f) |->
                   [attrs |-> NamedAttrs(i, f[i]), parent |-> 0, props |-> <<>>]]) :
        f \in UNION { [1..n -> NameKinds] : n \in 0..MaxNamed } }

\* an element by its annotations: none, KPI properties, another property,
\* or KPI properties on an element without id
PropKinds == {"bare", "keyA", "keyB", "note", "noid"}

NestedAttrs(i, k) ==
    CASE k = "noid" -> [name |-> "Lane"]
      [] k = "keyA" -> [id |-> ElementIds[i], name |-> "Screen"]
      [] OTHER -> [id |-> ElementIds[i]]

NestedProps(k) ==
    CASE k = "keyA" -> <<Prop("kpi_key", "a"), Prop("owner", "X")>>
      [] k = "keyB" -> <<Prop("kpi_target", "9"), Prop("kpi_key", "b")>>
      [] k = "note" -> <<Prop("note", "n")>>
      [] k = "noid" -> <<Prop("kpi_key", "c")>>
      [] OTHER -> <<>>

\* the diagrams of at most MaxNested elements over PropKinds, each element
\* a child of the process or of an element before it (an element without
\* id a child of the process)
NestedDocs ==
    { Xml(TRUE, [i \in 1..Len(f) |->
                   [attrs |-> NestedAttrs(i, f[i]), parent |-> g[i], props |-> NestedProps(f[i])]]) :
        <<f, g>> \in UNION { { <<a, b>> \in [1..n -> PropKinds] \X [1..n -> 0..(n - 1)] :
                                 \A i \in 1..n : /\ b[i] < i
                                                 /\ a[i] = "noid" => b[i] = 0 } :
                    n \in 0..MaxNested } }

(***************************************************************************)
(* pandas.  A DataFrame is its column names and its rows, each row the     *)
(* values in column order.  CSV text is kept as its lines, each line split *)
(* into fields.                                                            *)
(***************************************************************************)
DataFrame(c, r) == [kind |-> "DataFrame", columns |-> c, rows |-> r]

EmptyFrame == DataFrame(<<>>, <<>>)

NaN == "NaN"

CsvText(l) == [kind |-> "csv", lines |-> l]

\* pd.read_csv(io.StringIO(text)): the first line is the header; a short row
\* is padded with NaN; no line at all, or a row longer than the header, raises
read_csv(text) ==
    IF text.lines = <<>> THEN Raise("No columns to parse from file")
    ELSE LET header == Head(text.lines)
             data == Tail(text.lines)
             Pad(row) == [i \in 1..Len(header) |-> IF i <= Len(row) THEN row[i] ELSE NaN]
         IN IF \E i \in 1..Len(data) : Len(data[i]) > Len(header)
            THEN Raise("Error tokenizing data")
            ELSE Ok(DataFrame(header, [i \in 1..Len(data) |-> Pad(data[i])]))

CsvEmpty == CsvText(<<>>)
CsvKeyed == CsvText(<< <<"kpi_key", "target">>, <<"a", "5">> >>)

Absent == [kind |-> "absent"]

\* what hr/a_kpis.csv may be upstream
Csvs == {Absent, CsvEmpty, CsvKeyed}

\* gen_df.to_csv(index=False): the header line, then the rows with NaN
\* written as the empty field
to_csv(df) ==
    CsvText(<< df.columns >> \o
            [i \in 1..Len(df.rows) |->
               [j \in 1..Len(df.rows[i]) |->
                  IF df.rows[i][j] = NaN THEN "" ELSE df.rows[i][j]]])

(***************************************************************************)
(* The generation service.                                                 *)
(***************************************************************************)
\* response texts: the columns the prompt asks for, or other columns
ReplyKeyed ==
    CsvText(<< <<"kpi_key", "current_value", "target_value", "last_updated">>,
               <<"time_to_screen", "3", "2", "2024-01-01">>,
               <<"offer_rate", "40", "60">> >>)
ReplyUnkeyed == CsvText(<< <<"metric", "value">>, <<"cycle_time", "4">> >>)

Replies == {CsvEmpty, ReplyKeyed, ReplyUnkeyed}

\* client.chat.completions.create(...) and resp.choices[0].message.content
\* for the prompt that lists tasks: a response text, or an exception
chat_completions_create(tasks) ==
    {Ok(t) : t \in Replies} \union {Raise("APIConnectionError")}

\* st.success, st.dataframe(gen_df) and the download button
Proposal(df, file_name) ==
    [kind |-> "proposed", df |-> df, file_name |-> file_name, data |-> to_csv(df)]

(***************************************************************************)
(* The BPMN parser.                                                        *)
(***************************************************************************)
RECURSIVE IsAncestor(_, _, _)
\* element i is an ancestor of element j
IsAncestor(els, i, j) ==
    IF els[j].parent = 0 THEN FALSE
    ELSE els[j].parent = i \/ IsAncestor(els, i, els[j].parent)

RECURSIVE SubtreeProps(_, _, _)
\* el.findall(".//camunda:property"): the property entries of element i and
\* of the elements below it, from element j on, in document order
SubtreeProps(els, i, j) ==
    IF j > Len(els) THEN <<>>
    ELSE (IF j = i \/ IsAncestor(els, i, j) THEN els[j].props ELSE <<>>)
         \o SubtreeProps(els, i, j + 1)

\* props[p.attrib.get("name", "")] = p.attrib.get("value", ""), then
\* props.get(k, ""): the value of the last entry named k
PropsGet(ps, k) ==
    IF \E n \in 1..Len(ps) : ps[n].name = k
    THEN ps[CHOOSE n \in 1..Len(ps) :
                ps[n].name = k /\ \A m \in (n + 1)..Len(ps) : ps[m].name # k].value
    ELSE ""

\* el.attrib.get("name") or el.attrib.get("{...MODEL}name", default)
ElementName(attrs, default) ==
    IF Get(attrs, "name", "") # "" THEN attrs["name"] ELSE Get(attrs, NsName, default)

AnnotationColumns == <<"element_id", "element_name", "kpi_key", "kpi_target", "owner">>

RECURSIVE AnnotationRows(_, _)
\* the loop of parse_kpi_properties from element i on
AnnotationRows(els, i) ==
    IF i > Len(els) THEN <<>>
    ELSE LET el == els[i]
             props == SubtreeProps(els, i, i)
             row == << Get(el.attrs, "id", ""),
                       ElementName(el.attrs, ""),
                       PropsGet(props, "kpi_key"),
                       PropsGet(props, "kpi_target"),
                       PropsGet(props, "owner") >>
         IN (IF "id" \in DOMAIN el.attrs /\ props # <<>> THEN <<row>> ELSE <<>>)
            \o AnnotationRows(els, i + 1)

parse_kpi_properties(bpmn_xml) ==
    IF ~bpmn_xml.wf THEN Raise("ParseError")
    ELSE LET rows == AnnotationRows(bpmn_xml.els, 1)
         IN Ok(IF rows = <<>> THEN EmptyFrame ELSE DataFrame(AnnotationColumns, rows))

RECURSIVE ElementNames(_, _)
\* the first loop of extract_named_tasks from element i on
ElementNames(els, i) ==
    IF i > Len(els) THEN <<>>
    ELSE LET nm == ElementName(els[i].attrs, "")
         IN (IF "id" \in DOMAIN els[i].attrs /\ nm # "" THEN <<nm>> ELSE <<>>)
            \o ElementNames(els, i + 1)

\* a second loop that keeps every name
Dedupe_KeepAll(names, seen, out) == names

RECURSIVE Dedupe(_, _, _)
\* the second loop of extract_named_tasks
Dedupe(names, seen, out) ==
    IF names = <<>> THEN out
    ELSE IF Head(names) \notin seen
         THEN Dedupe(Tail(names), seen \union {Head(names)}, Append(out, Head(names)))
         ELSE Dedupe(Tail(names), seen, out)

extract_named_tasks(bpmn_xml) ==
    IF ~bpmn_xml.wf THEN Raise("ParseError")
    ELSE Ok(Dedupe(ElementNames(bpmn_xml.els, 1), {}, <<>>))

(***************************************************************************)
(* The state.                                                              *)
(***************************************************************************)
VARIABLES
    rootItems,             \* upstream: the entries at the repository root
    rawFiles,              \* upstream: path -> content of the raw file
    cache,                 \* st.cache_data: <<function, url>> -> [val, age]
    AUTO_REFRESH_SECONDS,  \* the number_input of the sidebar
    folderChoice,          \* session state of the "Folder" selectbox
    fileChoice,            \* session state of the "BPMN file" selectbox
    pc,                    \* the section the script run is at
    trigger,               \* what started the run that is executing
    folders, folder, bpmn_files, bpmn_name, bpmn_xml, kpis_df,
    shown,                 \* what the page of the current (or last) run shows
    calls,                 \* how the calls of the current (or last) run went
    netLog,                \* history: the last successful network fetch per key
    stale,                 \* history: keys cached before the last "Refresh now" click
    prev                   \* history: the run before the current one

vars == << rootItems, rawFiles, cache, AUTO_REFRESH_SECONDS, folderChoice, fileChoice,
           pc, trigger, folders, folder, bpmn_files, bpmn_name, bpmn_xml, kpis_df,
           shown, calls, netLog, stale, prev >>

upstream == << rootItems, rawFiles >>
session == << AUTO_REFRESH_SECONDS, folderChoice, fileChoice >>
script == << folders, folder, bpmn_files, bpmn_name, bpmn_xml, kpis_df >>

(***************************************************************************)
(* The upstream repository and the network.                                *)
(***************************************************************************)
RootFull == << File(NameReadme), Dir(finance), Dir(hr) >>
RootBare == << File(NameReadme) >>
RootListings == {RootFull, RootBare}

HrItems == << File(NameA), File(NameACsv), File(NameB), Dir(<<"o", "l", "d">>) >>
FinanceItems == << File(NameNotes) >>

\* the GitHub contents API: the listing of a path, a 404 when there is none
Listing(path) ==
    CASE path = <<>> -> Ok(rootItems)
      [] path = hr /\ Dir(hr) \in Range(rootItems) -> Ok(HrItems)
      [] path = finance /\ Dir(finance) \in Range(rootItems) -> Ok(FinanceItems)
      [] OTHER -> Raise("404 Client Error")

\* gh_contents(path): the listing, or the exception of requests.get /
\* raise_for_status (a 404 for a missing path; a 5xx, a rate limit or a
\* network error for any path)
gh_contents(path) ==
    {Listing(path), Raise("503 Server Error"), Raise("ConnectionError")}

IsDir(it) == it.type = "dir"
ItemName(items) == [i \in 1..Len(items) |-> items[i].name]

\* list_folders_at_root without the except branch's default list
list_folders_at_root_NoFallback(r) ==
    IF r.ok THEN ItemName(SelectSeq(r.val, IsDir)) ELSE <<>>

\* list_folders_at_root, given what gh_contents("") did
list_folders_at_root(r) ==
    IF r.ok THEN ItemName(SelectSeq(r.val, IsDir)) ELSE DEFAULT_FOLDERS

IsBpmnFile(it) == it.type = "file" /\ endswith(lower(it.name), DotBpmn)

RawPrefix == << "https://raw.githubusercontent.com/udexvinda/process-flow-dashboard/main/" >>

raw_url(path) == RawPrefix \o path

\* the file a raw URL names upstream
RawContent(url) ==
    LET path == SubSeq(url, Len(RawPrefix) + 1, Len(url))
    IN IF path \in DOMAIN rawFiles /\ Dir(hr) \in Range(rootItems)
       THEN rawFiles[path] ELSE Absent

\* requests.get(url) followed by raise_for_status()
RawGet(url) ==
    (IF RawContent(url) = Absent
     THEN {Raise("404 Client Error")}
     ELSE {Ok(RawContent(url))})
    \union {Raise("503 Server Error"), Raise("ConnectionError")}

\* requests.head(url): a status code, or the exception of a network error
\* or of the 15 s timeout
RawHead(url) ==
    {Ok(IF RawContent(url) = Absent THEN 404 ELSE 200), Ok(503),
     Raise("ConnectionError"), Raise("Timeout")}

\* head_exists, given what requests.head did
head_exists(r) == IF r.ok THEN Ok(r.val = 200) ELSE r

(***************************************************************************)
(* The cached loaders.  An entry is dropped when its age reaches the ttl.  *)
(* A loader yields the set of ways the call can go: res is what it returns *)
(* or raises, cache the cache afterwards, net whether the network was      *)
(* asked.                                                                  *)
(***************************************************************************)
NoEntries == [k \in {} |-> NoneVal]

CacheKey(fn, url) == <<fn, url>>

\* a cache that never serves an entry
CacheHit_Never(c, key) == FALSE

CacheHit(c, key) == key \in DOMAIN c

CachePut(c, key, v) ==
    [k \in DOMAIN c \union {key} |-> IF k = key THEN [val |-> v, age |-> 0] ELSE c[k]]

\* the cache after secs seconds
Aged(c, secs) ==
    [k \in {x \in DOMAIN c : c[x].age + secs < TTL} |-> [c[k] EXCEPT !.age = @ + secs]]

Outcome(r, c, n) == [res |-> r, cache |-> c, net |-> n]

load_text(c, url) ==
    LET key == CacheKey("load_text", url)
    IN IF CacheHit(c, key)
       THEN {Outcome(Ok(c[key].val), c, FALSE)}
       ELSE {IF r.ok THEN Outcome(r, CachePut(c, key, r.val), TRUE)
                     ELSE Outcome(r, c, TRUE) : r \in RawGet(url)}

\* a loader without the cache decorator: every call goes to the network
load_csv_safe_Uncached(c, url) ==
    LET key == CacheKey("load_csv_safe", url)
        Parsed(r) == IF r.ok THEN read_csv(r.val) ELSE r
    IN {IF Parsed(r).ok THEN Outcome(Parsed(r), CachePut(c, key, Parsed(r).val), TRUE)
                        ELSE Outcome(Parsed(r), c, TRUE) : r \in RawGet(url)}

load_csv_safe(c, url) ==
    LET key == CacheKey("load_csv_safe", url)
        Parsed(r) == IF r.ok THEN read_csv(r.val) ELSE r
    IN IF CacheHit(c, key)
       THEN {Outcome(Ok(c[key].val), c, FALSE)}
       ELSE {IF Parsed(r).ok THEN Outcome(Parsed(r), CachePut(c, key, Parsed(r).val), TRUE)
                             ELSE Outcome(Parsed(r), c, TRUE) : r \in RawGet(url)}

(***************************************************************************)
(* Widgets.                                                                *)
(***************************************************************************)
\* st.selectbox(label, options, index): the session's choice while it is
\* one of the options, the option at index otherwise
selectbox(options, choice, index) ==
    IF choice \in Range(options) THEN choice ELSE options[index]

\* index=folders.index("hr") if "hr" in folders else 0 (Python counts from 0)
FolderIndex(fs) == IF hr \in Range(fs) THEN Index(fs, hr) ELSE 1

BPMN_PATH == folder \o Slash \o bpmn_name
base == rsplit_head(bpmn_name, ".")
KPI_PATH == folder \o Slash \o base \o KpisCsv
csv_url == raw_url(KPI_PATH)

(***************************************************************************)
(* The page and the record of a run.                                       *)
(***************************************************************************)
EmptyPage == [messages |-> {}, diagram |-> NoneVal, view |-> NoneVal,
              suggestion |-> NoneVal]

NoCalls == [root |-> "none", list |-> "none", diag |-> "none", probe |-> "none",
            csv |-> "none", diagWarm |-> FALSE, csvWarm |-> FALSE,
            gen |-> FALSE, llm |-> "none", asked |-> <<>>, end |-> "running"]

Say(page, m) == [page EXCEPT !.messages = @ \union {m}]

MsgNoFolders == "error: No folders found at repo root."
MsgListError == "error: List error"
MsgNoFiles == "warning: No .bpmn files found in this folder."
MsgLoadFailed == "error: Failed to load BPMN"
MsgCsvFailed == "warning: Found KPI CSV but could not load"
MsgException == "exception: uncaught"
MsgNoTasks == "warning: No named tasks found in BPMN."
MsgAiFailed == "error: AI generation failed"

View(k, df) == [kind |-> k, df |-> df]

\* a reconciler that lets the annotations override the external table
ReconciledView_AnnotationsFirst(kpis, map_df) ==
    IF map_df.rows # <<>> THEN View("annotations", map_df)
    ELSE IF kpis # NoneVal THEN View("external", kpis)
    ELSE View("nodata", NoneVal)

\* the if / elif / else of the KPI TABLE section
ReconciledView(kpis, map_df) ==
    IF kpis # NoneVal THEN View("external", kpis)
    ELSE IF map_df.rows # <<>> THEN View("annotations", map_df)
    ELSE View("nodata", NoneVal)

(***************************************************************************)
(* The start of a run.  Streamlit reruns the script from the top on a      *)
(* widget interaction and on st.rerun(); a button is true only in the run  *)
(* its click started.  The state of a widget the run does not render is    *)
(* dropped.                                                                *)
(***************************************************************************)
Intervals == {0, SleepSecs}

NotRunning == pc \in {"Idle", "Sleeping"}

\* what the history keeps of the run that ends when the next one starts
Snapshot == [kind |-> "run", view |-> shown.view, root |-> calls.root,
             list |-> calls.list, probe |-> calls.probe]

\* the history after a commit upstream: the next run has no run to be
\* compared with
Changed == [kind |-> "changed"]

\* the history a rerun with the same selection starts with
Carry == IF prev = Changed THEN NoneVal ELSE Snapshot

\* a run starts on trigger t; h is the history of the run before it
StartRun(t, h) ==
    /\ pc' = "ListRoot"
    /\ trigger' = t
    /\ folders' = <<>>
    /\ folder' = <<>>
    /\ bpmn_files' = <<>>
    /\ bpmn_name' = <<>>
    /\ bpmn_xml' = NoneVal
    /\ kpis_df' = NoneVal
    /\ shown' = EmptyPage
    /\ calls' = NoCalls
    /\ prev' = h

Init ==
    /\ rootItems = RootFull
    /\ rawFiles = (PathA :> DocAnnotated) @@ (PathB :> DocPlain) @@ (PathACsv :> Absent)
    /\ cache = NoEntries
    /\ AUTO_REFRESH_SECONDS = 0
    /\ folderChoice = <<>>
    /\ fileChoice = <<>>
    /\ pc = "ListRoot"
    /\ trigger = "user"
    /\ folders = <<>>
    /\ folder = <<>>
    /\ bpmn_files = <<>>
    /\ bpmn_name = <<>>
    /\ bpmn_xml = NoneVal
    /\ kpis_df = NoneVal
    /\ shown = EmptyPage
    /\ calls = NoCalls
    /\ netLog = NoEntries
    /\ stale = {}
    /\ prev = NoneVal

(***************************************************************************)
(* What the user, the clock and the repository's committers do.            *)
(***************************************************************************)
\* the user picks another option of the "Folder" selectbox
ChangeFolder(f, h) ==
    /\ NotRunning
    /\ f \in Range(folders) \ {folder}
    /\ folderChoice' = f
    /\ StartRun("user", h)
    /\ UNCHANGED << upstream, cache, AUTO_REFRESH_SECONDS, fileChoice, netLog, stale >>

\* the user picks another option of the "BPMN file" selectbox
ChangeFile(n, h) ==
    /\ NotRunning
    /\ bpmn_name # <<>>
    /\ n \in Range(bpmn_files) \ {bpmn_name}
    /\ fileChoice' = n
    /\ StartRun("user", h)
    /\ UNCHANGED << upstream, cache, AUTO_REFRESH_SECONDS, folderChoice, netLog, stale >>

\* the user clicks "Refresh now", which the last run rendered at line 186
ClickRefresh(h) ==
    /\ NotRunning
    /\ bpmn_name # <<>>
    /\ stale' = DOMAIN cache
    /\ StartRun("refresh", h)
    /\ UNCHANGED << upstream, cache, session, netLog >>

\* the user clicks "Generate KPIs from BPMN", which the last run rendered
\* in the expander at line 257
GenerateClick(h) ==
    /\ NotRunning
    /\ calls.end = "finished"
    /\ StartRun("generate", h)
    /\ UNCHANGED << upstream, cache, session, netLog, stale >>

\* the user reruns the script: the Rerun command, or an edit of the
\* auto-refresh number_input (0..600)
Rerun(secs, h) ==
    /\ NotRunning
    /\ AUTO_REFRESH_SECONDS' = secs
    /\ StartRun("user", h)
    /\ UNCHANGED << upstream, cache, folderChoice, fileChoice, netLog, stale >>

\* time.sleep(AUTO_REFRESH_SECONDS); st.rerun()
SleepThenRerun(h) ==
    /\ pc = "Sleeping"
    /\ cache' = Aged(cache, AUTO_REFRESH_SECONDS)
    /\ netLog' = Aged(netLog, AUTO_REFRESH_SECONDS)
    /\ stale' = stale \intersect DOMAIN cache'
    /\ StartRun("timed", h)
    /\ UNCHANGED << upstream, session >>

\* time passes while the page sits idle
Tick ==
    /\ pc = "Idle"
    /\ cache' = Aged(cache, TickStep)
    /\ netLog' = Aged(netLog, TickStep)
    /\ stale' = stale \intersect DOMAIN cache'
    /\ UNCHANGED << upstream, session, pc, trigger, script, shown, calls, prev >>

\* between runs, a commit changes the root listing, hr/a.bpmn or hr/a_kpis.csv
UpstreamChange(h) ==
    /\ NotRunning
    /\ \/ /\ rootItems' \in RootListings \ {rootItems}
          /\ UNCHANGED rawFiles
       \/ /\ \E d \in Docs \ {rawFiles[PathA]} : rawFiles' = [rawFiles EXCEPT ![PathA] = d]
          /\ UNCHANGED rootItems
       \/ /\ \E c \in Csvs \ {rawFiles[PathACsv]} : rawFiles' = [rawFiles EXCEPT ![PathACsv] = c]
          /\ UNCHANGED rootItems
    /\ prev' = h
    /\ UNCHANGED << cache, session, pc, trigger, script, shown, calls, netLog, stale >>

(***************************************************************************)
(* The sections of the script.  A run that ends (st.stop(), an uncaught    *)
(* exception, the last line) leaves pc at Idle, or at Sleeping in the      *)
(* time.sleep of the auto-refresh.                                         *)
(***************************************************************************)
Stopped(c) == [c EXCEPT !.end = "stopped"]
Crashed(c) == [c EXCEPT !.end = "crashed"]

\* lines 153-159: the folder selector
ListRoot ==
    /\ pc = "ListRoot"
    /\ \E r \in gh_contents(<<>>) :
         LET fs == list_folders_at_root(r)
             c == [calls EXCEPT !.root = IF r.ok THEN "ok" ELSE "fail"]
         IN /\ folders' = fs
            /\ IF fs = <<>>
               THEN /\ shown' = Say(shown, MsgNoFolders)
                    /\ calls' = Stopped(c)
                    /\ pc' = "Idle"
                    /\ trigger' = "none"
                    /\ folder' = folder
                    /\ folderChoice' = <<>>
                    /\ fileChoice' = <<>>
               ELSE /\ folder' = selectbox(fs, folderChoice, FolderIndex(fs))
                    /\ folderChoice' = folder'
                    /\ calls' = c
                    /\ pc' = "ListFolder"
                    /\ UNCHANGED << shown, fileChoice, trigger >>
    /\ UNCHANGED << upstream, cache, AUTO_REFRESH_SECONDS, bpmn_files, bpmn_name,
                    bpmn_xml, kpis_df, netLog, stale, prev >>

\* a "no files" branch that goes on to the auto-refresh instead of stopping
NoFilesStop_FallsThrough == "AutoRefresh"

\* where the run is after the "No .bpmn files" warning: st.stop()
NoFilesStop == "Idle"

\* lines 161-183: the listing of the selected folder and the file selector
ListFolder ==
    /\ pc = "ListFolder"
    /\ \E r \in gh_contents(folder) :
         LET files == IF r.ok THEN ItemName(SelectSeq(r.val, IsBpmnFile)) ELSE <<>>
             list_err == IF r.ok THEN "" ELSE r.err
             c == [calls EXCEPT !.list = IF r.ok THEN "ok" ELSE "fail"]
         IN /\ bpmn_files' = files
            /\ IF list_err # ""
               THEN /\ shown' = Say(shown, MsgListError)
                    /\ calls' = Stopped(c)
                    /\ pc' = "Idle"
                    /\ trigger' = "none"
                    /\ fileChoice' = <<>>
                    /\ UNCHANGED bpmn_name
               ELSE IF files = <<>>
               THEN /\ shown' = Say(shown, MsgNoFiles)
                    /\ calls' = Stopped(c)
                    /\ pc' = NoFilesStop
                    /\ trigger' = "none"
                    /\ fileChoice' = <<>>
                    /\ UNCHANGED bpmn_name
               ELSE /\ bpmn_name' = selectbox(files, fileChoice, 1)
                    /\ fileChoice' = bpmn_name'
                    /\ calls' = c
                    /\ pc' = "RefreshButton"
                    /\ UNCHANGED << shown, trigger >>
    /\ UNCHANGED << upstream, cache, AUTO_REFRESH_SECONDS, folderChoice, folders,
                    folder, bpmn_xml, kpis_df, netLog, stale, prev >>

\* a button that reads as clicked in every rerun the user did not start
RefreshClicked_AnyRerun(t) == t \in {"refresh", "timed"}

\* st.sidebar.button("Refresh now") in a run started by trigger t
RefreshClicked(t) == t = "refresh"

\* lines 185-187: st.cache_data.clear() when the button was clicked
RefreshButton ==
    /\ pc = "RefreshButton"
    /\ IF RefreshClicked(trigger)
       THEN /\ cache' = NoEntries
            /\ netLog' = [k \in DOMAIN netLog |-> [netLog[k] EXCEPT !.cleared = TRUE]]
            /\ stale' = {}
       ELSE UNCHANGED << cache, netLog, stale >>
    /\ pc' = "LoadDiagram"
    /\ UNCHANGED << upstream, session, trigger, script, shown, calls, prev >>

\* the history of the network fetches, after the loader outcome o for key
Logged(o, key) ==
    IF o.net /\ o.res.ok
    THEN [k \in DOMAIN netLog \union {key} |->
             IF k = key THEN [val |-> o.res.val, age |-> 0, cleared |-> FALSE]
             ELSE netLog[k]]
    ELSE netLog

How(o) == IF ~o.net THEN "hit" ELSE IF o.res.ok THEN "net-ok" ELSE "net-fail"

\* an except branch without st.stop(): the run goes on to the probe
LoadFailedStop_GoesOn == "ProbeKpi"

\* where the run is after "Failed to load BPMN": st.stop()
LoadFailedStop == "Idle"

\* lines 189-194: the diagram
LoadDiagram ==
    /\ pc = "LoadDiagram"
    /\ \E o \in load_text(cache, raw_url(BPMN_PATH)) :
         LET key == CacheKey("load_text", raw_url(BPMN_PATH))
             c == [calls EXCEPT !.diag = How(o), !.diagWarm = key \in DOMAIN cache]
         IN /\ cache' = o.cache
            /\ netLog' = Logged(o, key)
            /\ stale' = IF o.net /\ o.res.ok THEN stale \ {key} ELSE stale
            /\ IF o.res.ok
               THEN /\ bpmn_xml' = o.res.val
                    /\ calls' = c
                    /\ pc' = "ProbeKpi"
                    /\ UNCHANGED << shown, trigger >>
               ELSE /\ shown' = Say(shown, MsgLoadFailed)
                    /\ calls' = Stopped(c)
                    /\ pc' = LoadFailedStop
                    /\ trigger' = "none"
                    /\ UNCHANGED bpmn_xml
    /\ UNCHANGED << upstream, session, folders, folder, bpmn_files, bpmn_name,
                    kpis_df, prev >>

\* a gate that loads the KPI CSV whatever the probe said
ProbeGate_Ungated(exists) == "LoadCsv"

\* line 198: the KPI CSV is loaded only when the probe says it exists
ProbeGate(exists) == IF exists THEN "LoadCsv" ELSE "KpiTable"

\* lines 196-198: the existence probe
ProbeKpi ==
    /\ pc = "ProbeKpi"
    /\ \E h \in RawHead(csv_url) :
         LET r == head_exists(h)
         IN IF r.ok
            THEN /\ calls' = [calls EXCEPT !.probe = IF r.val THEN "true" ELSE "false"]
                 /\ pc' = ProbeGate(r.val)
                 /\ UNCHANGED << shown, trigger >>
            ELSE /\ calls' = Crashed([calls EXCEPT !.probe = "raised"])
                 /\ shown' = Say(shown, MsgException)
                 /\ pc' = "Idle"
                 /\ trigger' = "none"
    /\ UNCHANGED << upstream, cache, session, script, netLog, stale, prev >>

\* lines 199-202: the KPI CSV
LoadCsv ==
    /\ pc = "LoadCsv"
    /\ \E o \in load_csv_safe(cache, csv_url) :
         LET key == CacheKey("load_csv_safe", csv_url)
         IN /\ cache' = o.cache
            /\ netLog' = Logged(o, key)
            /\ stale' = IF o.net /\ o.res.ok THEN stale \ {key} ELSE stale
            /\ calls' = [calls EXCEPT !.csv = How(o), !.csvWarm = key \in DOMAIN cache]
            /\ kpis_df' = IF o.res.ok THEN o.res.val ELSE NoneVal
            /\ shown' = IF o.res.ok THEN shown ELSE Say(shown, MsgCsvFailed)
    /\ pc' = "KpiTable"
    /\ UNCHANGED << upstream, session, trigger, folders, folder, bpmn_files, bpmn_name,
                    bpmn_xml, prev >>

\* lines 204-240: the diagram viewer and the KPI table
KpiTable ==
    /\ pc = "KpiTable"
    /\ LET page == [shown EXCEPT !.diagram = bpmn_xml]
           map_df == parse_kpi_properties(bpmn_xml)
       IN IF map_df.ok
          THEN /\ shown' = [page EXCEPT !.view = ReconciledView(kpis_df, map_df.val)]
               /\ pc' = "Suggest"
               /\ UNCHANGED << calls, trigger >>
          ELSE /\ shown' = Say(page, MsgException)
               /\ calls' = Crashed(calls)
               /\ pc' = "Idle"
               /\ trigger' = "none"
    /\ UNCHANGED << upstream, cache, session, script, netLog, stale, prev >>

\* st.button("Generate KPIs from BPMN") in a run started by trigger t
GenerateClicked(t) == t = "generate"

\* a guard that lets an empty list of names through
NoTasks_Never(tasks) == FALSE

\* if not tasks:
NoTasks(tasks) == tasks = <<>>

\* a suggestion block without the try: an exception ends the run
AfterSuggest_Uncaught(raised) == IF raised THEN "Idle" ELSE "AutoRefresh"

\* lines 258 and 298: where the run goes after the suggestion block, whether
\* or not the block raised
AfterSuggest(raised) == "AutoRefresh"

\* lines 242-299: the AI suggestion expander; everything the button runs
\* is inside try / except Exception
Suggest ==
    /\ pc = "Suggest"
    /\ IF ~GenerateClicked(trigger)
       THEN /\ pc' = AfterSuggest(FALSE)
            /\ UNCHANGED << shown, calls >>
       ELSE LET tasks == extract_named_tasks(bpmn_xml)
                c == [calls EXCEPT !.gen = TRUE]
            IN IF ~tasks.ok
               THEN /\ shown' = Say(shown, MsgAiFailed)
                    /\ calls' = c
                    /\ pc' = AfterSuggest(TRUE)
               ELSE IF NoTasks(tasks.val)
               THEN /\ shown' = Say(shown, MsgNoTasks)
                    /\ calls' = c
                    /\ pc' = AfterSuggest(FALSE)
               ELSE \E resp \in chat_completions_create(tasks.val) :
                      LET gen_df == IF resp.ok THEN read_csv(resp.val) ELSE resp
                      IN /\ calls' = [c EXCEPT !.llm = IF resp.ok THEN "ok" ELSE "fail",
                                               !.asked = tasks.val]
                         /\ shown' = IF gen_df.ok
                                     THEN [shown EXCEPT !.suggestion =
                                              Proposal(gen_df.val, base \o KpisCsv)]
                                     ELSE Say(shown, MsgAiFailed)
                         /\ pc' = AfterSuggest(~gen_df.ok)
    /\ UNCHANGED << upstream, cache, session, trigger, script, netLog, stale, prev >>

\* a script without the auto-refresh section
SleepOrEnd_NoSleep(secs) == "Idle"

\* if AUTO_REFRESH_SECONDS: time.sleep(AUTO_REFRESH_SECONDS)
SleepOrEnd(secs) == IF secs # 0 THEN "Sleeping" ELSE "Idle"

\* lines 314-319: the run ends, or sleeps and reruns
AutoRefresh ==
    /\ pc = "AutoRefresh"
    /\ pc' = SleepOrEnd(AUTO_REFRESH_SECONDS)
    /\ trigger' = "none"
    /\ calls' = [calls EXCEPT !.end = "finished"]
    /\ UNCHANGED << upstream, cache, session, script, shown, netLog, stale, prev >>

Next ==
    \/ \E f \in Range(DEFAULT_FOLDERS) : ChangeFolder(f, prev)
    \/ \E n \in {NameA, NameB} : ChangeFile(n, prev)
    \/ ClickRefresh(prev)
    \/ GenerateClick(prev)
    \/ \E secs \in Intervals : Rerun(secs, prev)
    \/ SleepThenRerun(prev)
    \/ Tick
    \/ UpstreamChange(prev)
    \/ ListRoot
    \/ ListFolder
    \/ RefreshButton
    \/ LoadDiagram
    \/ ProbeKpi
    \/ LoadCsv
    \/ KpiTable
    \/ Suggest
    \/ AutoRefresh

Spec == Init /\ [][Next]_vars

\* time.sleep(AUTO_REFRESH_SECONDS) returns and st.rerun() reruns the script
SpecLive == Spec /\ WF_vars(SleepThenRerun(prev))

(***************************************************************************)
(* The same program with the history of the previous run kept: a rerun     *)
(* with the same selection carries the snapshot of the run before it; a    *)
(* change of the selection or a commit upstream leaves the next run with   *)
(* no run to be compared with.  The user does not ask for a suggestion     *)
(* here: the suggestion block changes neither the view nor the cache.      *)
(***************************************************************************)
IdemNext ==
    \/ \E f \in Range(DEFAULT_FOLDERS) : ChangeFolder(f, NoneVal)
    \/ \E n \in {NameA, NameB} : ChangeFile(n, NoneVal)
    \/ ClickRefresh(Carry)
    \/ \E secs \in Intervals : Rerun(secs, Carry)
    \/ SleepThenRerun(Carry)
    \/ Tick
    \/ UpstreamChange(Changed)
    \/ ListRoot
    \/ ListFolder
    \/ RefreshButton
    \/ LoadDiagram
    \/ ProbeKpi
    \/ LoadCsv
    \/ KpiTable
    \/ Suggest
    \/ AutoRefresh

SpecIdem == Init /\ [][IdemNext]_vars

(***************************************************************************)
(* The sections after the loads, on a diagram drawn from NamedDocs and     *)
(* NestedDocs: the run has listed hr, fetched hr/a.bpmn from the network   *)
(* and found no KPI CSV, and is at the KPI TABLE section.                  *)
(***************************************************************************)
ParseInit ==
    /\ rootItems = RootFull
    /\ bpmn_xml \in NamedDocs \union NestedDocs
    /\ rawFiles = (PathA :> bpmn_xml) @@ (PathB :> DocPlain) @@ (PathACsv :> Absent)
    /\ cache = CachePut(NoEntries, CacheKey("load_text", raw_url(PathA)), bpmn_xml)
    /\ AUTO_REFRESH_SECONDS \in Intervals
    /\ folderChoice = hr
    /\ fileChoice = NameA
    /\ pc = "KpiTable"
    /\ trigger \in {"user", "generate"}
    /\ folders = list_folders_at_root(Ok(RootFull))
    /\ folder = hr
    /\ bpmn_files = ItemName(SelectSeq(HrItems, IsBpmnFile))
    /\ bpmn_name = NameA
    /\ kpis_df = NoneVal
    /\ shown = EmptyPage
    /\ calls = [NoCalls EXCEPT !.root = "ok", !.list = "ok", !.diag = "net-ok",
                               !.probe = "false"]
    /\ netLog = (CacheKey("load_text", raw_url(PathA)) :>
                    [val |-> bpmn_xml, age |-> 0, cleared |-> FALSE])
    /\ stale = {}
    /\ prev = NoneVal

ParseNext ==
    \/ KpiTable
    \/ Suggest
    \/ AutoRefresh

SpecParse == ParseInit /\ [][ParseNext]_vars

(***************************************************************************)
(* Properties.                                                             *)
(***************************************************************************)
\* the annotation rows of the diagram the run loaded (no rows before it is
\* loaded, and none when it does not parse)
MapRows ==
    IF bpmn_xml # NoneVal /\ parse_kpi_properties(bpmn_xml).ok
    THEN parse_kpi_properties(bpmn_xml).val.rows
    ELSE <<>>

\* the run has executed the KPI TABLE section to its end
KpiSectionDone == pc \in {"Suggest", "AutoRefresh", "Sleeping"} \/ calls.end = "finished"

ExternalFetched == calls.csv \in {"hit", "net-ok"}

\* C1: a run that has executed the KPI section presents exactly one of the
\* three views, in the strict order: the external table when one was
\* fetched (whatever the annotation rows), else the annotation table when
\* the extraction gave a row, else the "no data" state; the annotation
\* table is never presented in a run that fetched an external table.
C1_StrictOrder ==
    /\ KpiSectionDone => shown.view # NoneVal
    /\ shown.view # NoneVal =>
         /\ shown.view.kind \in {"external", "annotations", "nodata"}
         /\ ExternalFetched => shown.view = View("external", kpis_df)
         /\ ~ExternalFetched /\ MapRows # <<>> =>
                shown.view = View("annotations", parse_kpi_properties(bpmn_xml).val)
         /\ ~ExternalFetched /\ MapRows = <<>> => shown.view.kind = "nodata"
    /\ ExternalFetched <=> kpis_df # NoneVal

\* C1 witness: an external table was fetched for a diagram that has
\* annotation rows, and the external table is what the run presents
C1_Witness ==
    /\ KpiSectionDone
    /\ ExternalFetched
    /\ MapRows # <<>>
    /\ shown.view.kind = "external"

\* C3: the KPI path is fetched (or read from the cache) only after the
\* existence probe of the run returned true; after a probe that returned
\* false, or raised, the run neither fetches nor presents an external table.
C3_ProbeGatesFetch ==
    /\ pc = "LoadCsv" => calls.probe = "true"
    /\ calls.csv # "none" => calls.probe = "true"
    /\ calls.probe # "true" =>
         /\ kpis_df = NoneVal
         /\ shown.view # NoneVal => shown.view.kind # "external"

\* C3 witness: the probe returned false while the cache still held the
\* table of that URL, and the run presented its view without it
C3_Witness ==
    /\ calls.probe = "false"
    /\ CacheKey("load_csv_safe", csv_url) \in DOMAIN cache
    /\ shown.view # NoneVal

\* the columns of df without the one at index i
DropColumn(row, i) == SubSeq(row, 1, i - 1) \o SubSeq(row, i + 1, Len(row))

RECURSIVE JoinRows(_, _, _, _, _)
\* the rows of the left join from row i of the left table on: every left
\* row once per matching right row, or once padded with NaN when none matches
JoinRows(left, right, lk, rk, i) ==
    IF i > Len(left.rows) THEN <<>>
    ELSE LET row == left.rows[i]
             Matches(r) == r[rk] = row[lk]
             found == SelectSeq(right.rows, Matches)
             pad == [n \in 1..(Len(right.columns) - 1) |-> NaN]
         IN (IF found = <<>> THEN << row \o pad >>
             ELSE [m \in 1..Len(found) |-> row \o DropColumn(found[m], rk)])
            \o JoinRows(left, right, lk, rk, i + 1)

\* left.merge(right, on=key, how="left")
LeftJoin(left, right, key) ==
    LET lk == Index(left.columns, key)
        rk == Index(right.columns, key)
    IN DataFrame(left.columns \o DropColumn(right.columns, rk),
                 JoinRows(left, right, lk, rk, 1))

\* C2: when an external table with a kpi_key column was fetched and
\* annotation rows exist, the table presented is the left join of the
\* external table with the annotation rows on kpi_key; an external table
\* without a kpi_key column is presented unmodified.
C2_LeftJoinPresented ==
    shown.view # NoneVal /\ shown.view.kind = "external" =>
      /\ "kpi_key" \in Range(kpis_df.columns) /\ MapRows # <<>> =>
            shown.view.df = LeftJoin(kpis_df, parse_kpi_properties(bpmn_xml).val, "kpi_key")
      /\ "kpi_key" \notin Range(kpis_df.columns) => shown.view.df = kpis_df

\* C6: the existence probe never raises: for every outcome of the HEAD
\* request it returns a boolean, true for status 200 and false otherwise.
C6_ProbeNeverRaises ==
    pc = "ProbeKpi" =>
      \A h \in RawHead(csv_url) :
        /\ head_exists(h).ok
        /\ head_exists(h).val = (h.ok /\ h.val = 200)

\* a failure of the call at a stage was reported in a message of that stage
\* and the run stopped there
Halted(msg) ==
    /\ msg \in shown.messages
    /\ pc = "Idle"
    /\ calls.end = "stopped"
    /\ shown.view = NoneVal

\* C5: a failed fetch at any stage (folder listing, diagram fetch,
\* existence probe, KPI-table fetch) leaves a message scoped to that stage,
\* no later stage of the run executes, no exception escapes, and the
\* controller is back in Idle.
C5_FailureHalts ==
    /\ calls.list = "fail" => Halted(MsgListError) /\ calls.diag = "none"
    /\ calls.diag = "net-fail" => Halted(MsgLoadFailed) /\ calls.probe = "none"
    /\ calls.probe = "raised" => Halted(MsgException) /\ calls.csv = "none"
    /\ calls.csv = "net-fail" => Halted(MsgCsvFailed)
    /\ calls.end # "crashed"

\* C4: no fetch is served from a cache entry that was stored before the
\* last click on "Refresh now".
C4_RefreshInvalidates ==
    [][ /\ pc = "LoadDiagram" /\ calls'.diag = "hit" =>
            CacheKey("load_text", raw_url(BPMN_PATH)) \notin stale
        /\ pc = "LoadCsv" /\ calls'.csv = "hit" =>
            CacheKey("load_csv_safe", csv_url) \notin stale ]_vars


\* the cache keys of the two cached fetches of the run
DiagKey == << "load_text", raw_url(BPMN_PATH) >>
CsvKey == << "load_csv_safe", csv_url >>

\* a successful network fetch of key k was made less than TTL ago
InWindow(k) == k \in DOMAIN netLog

\* no "Refresh now" emptied the cache since that fetch
NotCleared(k) == ~netLog[k].cleared

\* every cache entry is the last successful network fetch of its key
EntriesAreLastFetch ==
    \A k \in DOMAIN cache :
      /\ InWindow(k)
      /\ NotCleared(k)
      /\ cache[k].val = netLog[k].val
      /\ cache[k].age = netLog[k].age
      /\ cache[k].age < TTL

\* a failed fetch stores nothing, and a fetch outside the window of its key
\* goes to the network
FailureAndExpiry ==
    /\ pc = "LoadDiagram" /\ calls'.diag = "net-fail" => cache' = cache
    /\ pc = "LoadCsv" /\ calls'.csv = "net-fail" => cache' = cache
    /\ pc = "LoadDiagram" /\ ~InWindow(DiagKey) => calls'.diag \in {"net-ok", "net-fail"}
    /\ pc = "LoadCsv" /\ ~InWindow(CsvKey) => calls'.csv \in {"net-ok", "net-fail"}

\* C8 as stated: a fetch within the window of a successful fetch of the
\* same URL returns that fetch's value without a network request; a failed
\* fetch stores nothing; every entry is the last successful network fetch of
\* its key; a fetch after the window goes to the network.
C8_WindowAlwaysHits ==
    /\ []EntriesAreLastFetch
    /\ [][ /\ FailureAndExpiry
           /\ pc = "LoadDiagram" /\ InWindow(DiagKey) =>
                /\ calls'.diag = "hit"
                /\ bpmn_xml' = netLog[DiagKey].val
           /\ pc = "LoadCsv" /\ InWindow(CsvKey) =>
                /\ calls'.csv = "hit"
                /\ kpis_df' = netLog[CsvKey].val ]_vars

\* C8 amended: the same, for a fetch within the window with no "Refresh now"
\* between the two fetches.
C8_WindowHitsUnlessCleared ==
    /\ []EntriesAreLastFetch
    /\ [][ /\ FailureAndExpiry
           /\ pc = "LoadDiagram" /\ InWindow(DiagKey) /\ NotCleared(DiagKey) =>
                /\ calls'.diag = "hit"
                /\ bpmn_xml' = netLog[DiagKey].val
           /\ pc = "LoadCsv" /\ InWindow(CsvKey) /\ NotCleared(CsvKey) =>
                /\ calls'.csv = "hit"
                /\ kpis_df' = netLog[CsvKey].val ]_vars

\* C8 witness: a later run was served the diagram from the entry an earlier
\* run fetched, while the file upstream has changed since
C8_Witness ==
    /\ pc = "ProbeKpi"
    /\ calls.diag = "hit"
    /\ netLog[DiagKey].age > 0
    /\ bpmn_xml # rawFiles[BPMN_PATH]


\* C9: a timed rerun starts the script from the top; no step of a run the
\* timer started removes or changes a cache entry; an entry leaves the cache
\* only by its age reaching TTL or in the st.cache_data.clear() of a run
\* that "Refresh now" started.
C9_TimedRerunKeepsCache ==
    [][ /\ trigger' = "timed" /\ trigger # "timed" =>
              pc = "Sleeping" /\ pc' = "ListRoot" /\ calls' = NoCalls
        /\ trigger = "timed" =>
              \A k \in DOMAIN cache : k \in DOMAIN cache' /\ cache'[k] = cache[k]
        /\ \A k \in DOMAIN cache \ DOMAIN cache' :
              \/ pc = "RefreshButton" /\ trigger = "refresh"
              \/ pc = "Idle" /\ pc' = "Idle" /\ cache[k].age + TickStep >= TTL
              \/ pc = "Sleeping" /\ trigger' = "timed"
                   /\ cache[k].age + AUTO_REFRESH_SECONDS >= TTL ]_vars

\* C9 witness: a run the timer started is past the Refresh button with the
\* cache still holding an entry
C9_Witness ==
    /\ trigger = "timed"
    /\ pc = "LoadDiagram"
    /\ DiagKey \in DOMAIN cache


\* C10: a folder listing that succeeds with no .bpmn file ends the run in
\* the "no files" state: the warning is the only message, the run issued no
\* diagram fetch, probe or KPI fetch, and the next run is started by the
\* user (never by the timer).
C10_NoFilesTerminal ==
    /\ [](calls.list = "ok" /\ bpmn_files = <<>> => MsgNoFiles \in shown.messages)
    /\ [](MsgNoFiles \in shown.messages =>
            /\ calls.list = "ok"
            /\ bpmn_files = <<>>
            /\ shown.messages = {MsgNoFiles}
            /\ shown.view = NoneVal
            /\ calls.end = "stopped"
            /\ calls.diag = "none" /\ calls.probe = "none" /\ calls.csv = "none"
            /\ pc = "Idle")
    /\ [][ (MsgNoFiles \in shown.messages /\ pc' # pc) =>
              (pc' = "ListRoot" /\ trigger' = "user") ]_vars

\* C10 witness: the run stopped at "no files" with an auto-refresh interval set
C10_Witness ==
    /\ MsgNoFiles \in shown.messages
    /\ AUTO_REFRESH_SECONDS # 0
    /\ pc = "Idle"

\* the run is over and the history holds the run before it, which had the
\* same selection and the same files upstream
Compared == prev.kind = "run" /\ calls.end # "running"

\* every cached fetch of the run found an entry for its URL in the cache
Warm ==
    /\ calls.diag # "none" => calls.diagWarm
    /\ calls.csv # "none" => calls.csvWarm

\* the calls that bypass the cache ended as they did in the run before
SameOutcomes ==
    /\ calls.root = prev.root
    /\ calls.list = prev.list
    /\ calls.probe = prev.probe

\* C7 as stated: of two successive runs with the same selection, no
\* upstream change between them and the cache warm, the second presents the
\* view the first presented, whatever the outcomes of its network calls.
C7_SameViewWhateverOutcomes ==
    Compared /\ Warm => shown.view = prev.view

\* C7 amended: the same, when the calls of the second run that bypass the
\* cache (root listing, folder listing, existence probe) have the outcomes
\* they had in the first run.
C7_SameViewSameOutcomes ==
    Compared /\ Warm /\ SameOutcomes => shown.view = prev.view

\* C7 witness: the second run presented the view of the first from cache
\* entries alone, while the diagram upstream differs from the cached one
C7_Witness ==
    /\ Compared
    /\ SameOutcomes
    /\ calls.diag = "hit"
    /\ calls.csv = "hit"
    /\ shown.view # NoneVal
    /\ shown.view = prev.view
    /\ bpmn_xml # rawFiles[BPMN_PATH]

\* the suggestion of the run failed: the service raised, or its response
\* text did not parse
SuggestionFailed ==
    \/ calls.llm = "fail"
    \/ calls.llm = "ok" /\ shown.suggestion = NoneVal

\* C11: a failure of the suggestion (service error or unparseable response)
\* leaves the diagram and the view of the run as presented, is reported in
\* the suggestion's own message, and the run goes on to the auto-refresh
\* section, which schedules the timed rerun as in any other run.
C11_SuggestionIsolated ==
    /\ [](SuggestionFailed =>
             /\ MsgAiFailed \in shown.messages
             /\ MsgException \notin shown.messages
             /\ shown.view # NoneVal
             /\ shown.diagram = bpmn_xml
             /\ calls.end \in {"running", "finished"}
             /\ pc \in {"AutoRefresh", "Idle", "Sleeping"}
             /\ calls.end = "finished" =>
                   pc = (IF AUTO_REFRESH_SECONDS # 0 THEN "Sleeping" ELSE "Idle"))
    /\ [][ pc = "Suggest" =>
             /\ pc' = "AutoRefresh"
             /\ shown'.view = shown.view
             /\ shown'.diagram = shown.diagram
             /\ shown'.messages \ shown.messages \subseteq {MsgAiFailed, MsgNoTasks}
             /\ calls'.end = calls.end ]_vars

\* C11 witness: the service raised in a run that presented a view, and the
\* run ended in the sleep of the auto-refresh
C11_Witness ==
    /\ calls.llm = "fail"
    /\ shown.view # NoneVal
    /\ MsgAiFailed \in shown.messages
    /\ pc = "Sleeping"

\* the header line of a response text names the kpi_key column
HasKeyHeader(text) == text.lines # <<>> /\ "kpi_key" \in Range(Head(text.lines))

\* C12: a response text whose header has no kpi_key column gives no
\* proposed table and no download artifact; a response text with the
\* kpi_key header parses to one row per data line.
C12_KeyColumnRequired ==
    /\ shown.suggestion # NoneVal =>
          "kpi_key" \in Range(shown.suggestion.df.columns)
    /\ pc = "Suggest" =>
          \A t \in Replies :
             HasKeyHeader(t) =>
                /\ read_csv(t).ok
                /\ Len(read_csv(t).val.rows) = Len(t.lines) - 1

\* the run loaded a diagram that is not well-formed XML
MalformedLoaded == bpmn_xml # NoneVal /\ ~bpmn_xml.wf

\* the errors the fetches of the script raise
FetchErrors == {"404 Client Error", "503 Server Error", "ConnectionError", "Timeout"}

\* C13: on a malformed diagram both extractors fail with an error that is
\* not a fetch error, and the run that reaches the KPI TABLE section with
\* it (the probe returned) halts there with a message instead of ending in
\* an uncaught exception.
C13_MalformedHandled ==
    MalformedLoaded =>
      /\ ~parse_kpi_properties(bpmn_xml).ok
      /\ ~extract_named_tasks(bpmn_xml).ok
      /\ parse_kpi_properties(bpmn_xml).err \notin FetchErrors
      /\ extract_named_tasks(bpmn_xml).err \notin FetchErrors
      /\ calls.probe \in {"true", "false"} /\ pc \notin {"LoadCsv", "KpiTable"} =>
            /\ calls.end = "stopped"
            /\ MsgException \notin shown.messages
            /\ shown.view = NoneVal

\* the stem of a file name: what stands before its last dot
StemOf(n) ==
    LET k == CHOOSE m \in 0..Len(n) :
                \/ m = Len(n) /\ "." \notin Range(n)
                \/ /\ m < Len(n)
                   /\ n[m + 1] = "."
                   /\ \A j \in (m + 2)..Len(n) : n[j] # "."
    IN SubSeq(n, 1, k)

HrRecruitment ==
    <<"h", "r", "_", "r", "e", "c", "r", "u", "i", "t", "m", "e", "n", "t", ".", "b", "p", "m", "n">>
HrRecruitmentKpis ==
    <<"h", "r", "/", "h", "r", "_", "r", "e", "c", "r", "u", "i", "t", "m", "e", "n", "t",
      "_", "k", "p", "i", "s", ".", "c", "s", "v">>

\* diagram file names of one directory
DiagramNames ==
    {NameA, NameB, HrRecruitment, <<"a", ".", "v", "2", ".", "b", "p", "m", "n">>,
     <<".", "b", "p", "m", "n">>}

\* the artifact path the script derives for file n of directory d
ArtifactPath(d, n) == d \o Slash \o rsplit_head(n, ".") \o KpisCsv

\* C14: the KPI path of a run is the selected folder, "/", the stem of the
\* selected file name and "_kpis.csv", a function of the selection alone;
\* where the paths are derived, hr/hr_recruitment.bpmn maps to
\* hr/hr_recruitment_kpis.csv and two file names of the folder with
\* different stems never give the same path.
C14_ArtifactPath ==
    /\ bpmn_name # <<>> =>
          /\ KPI_PATH = folder \o Slash \o StemOf(bpmn_name) \o KpisCsv
          /\ KPI_PATH = ArtifactPath(folder, bpmn_name)
    /\ pc = "ListFolder" =>
          /\ ArtifactPath(hr, HrRecruitment) = HrRecruitmentKpis
          /\ \A n1, n2 \in DiagramNames :
                StemOf(n1) # StemOf(n2) =>
                   ArtifactPath(folder, n1) # ArtifactPath(folder, n2)

\* C14 witness: a run with hr/b.BPMN selected probes hr/b_kpis.csv
C14_Witness ==
    /\ pc = "ProbeKpi"
    /\ folder = hr
    /\ bpmn_name = NameB
    /\ KPI_PATH = hr \o Slash \o <<"b">> \o KpisCsv

\* the elements with an id and at least one property entry of their own
OwnAnnotated(els) == {i \in 1..Len(els) : "id" \in DOMAIN els[i].attrs /\ els[i].props # <<>>}

\* the n-th smallest member of a set of positions
NthOf(S, n) == CHOOSE i \in S : Cardinality({j \in S : j < i}) = n - 1

\* the value of the property named k among the entries ps, "" when absent
OwnValue(ps, k) ==
    IF \E n \in 1..Len(ps) : ps[n].name = k
    THEN ps[CHOOSE n \in 1..Len(ps) : ps[n].name = k].value
    ELSE ""

\* one row per element of OwnAnnotated, in document order, from the
\* element's own property entries
OwnRows(els) ==
    [n \in 1..Cardinality(OwnAnnotated(els)) |->
       LET el == els[NthOf(OwnAnnotated(els), n)]
       IN << el.attrs.id, ElementName(el.attrs, ""), OwnValue(el.props, "kpi_key"),
             OwnValue(el.props, "kpi_target"), OwnValue(el.props, "owner") >>]

\* C15: with no external table, the annotation table presented has exactly
\* one row per id-bearing element that has a property entry of its own, in
\* document order, with that element's kpi_key, kpi_target and owner ("" when
\* absent); with no such element the "no data" state is presented.
C15_OwnAnnotationsOnly ==
    shown.view # NoneVal /\ kpis_df = NoneVal =>
      IF OwnRows(bpmn_xml.els) = <<>>
      THEN shown.view.kind = "nodata"
      ELSE shown.view = View("annotations", DataFrame(AnnotationColumns, OwnRows(bpmn_xml.els)))

\* the positions of the elements with an id and a name
NamedPositions(els) ==
    {i \in 1..Len(els) : "id" \in DOMAIN els[i].attrs /\ ElementName(els[i].attrs, "") # ""}

\* where the name nm first occurs among the named elements
FirstOccurrence(els, nm) ==
    CHOOSE i \in NamedPositions(els) :
       /\ ElementName(els[i].attrs, "") = nm
       /\ \A j \in NamedPositions(els) : ElementName(els[j].attrs, "") = nm => i <= j

\* out lists the names of the named elements once each, by first occurrence
IsFirstOccurrenceList(out, els) ==
    /\ Range(out) = {ElementName(els[i].attrs, "") : i \in NamedPositions(els)}
    /\ \A a, b \in 1..Len(out) : a # b => out[a] # out[b]
    /\ \A a, b \in 1..Len(out) :
          a < b => FirstOccurrence(els, out[a]) < FirstOccurrence(els, out[b])

\* C16: the names a suggestion request extracts from a well-formed diagram
\* are the resolved names of its named id-bearing elements, none twice, each
\* at the place of its first occurrence in document order.
C16_NamesDeduped ==
    calls.gen => IsFirstOccurrenceList(calls.asked, bpmn_xml.els)

\* C16 witness: elements named A, B, A, C gave the names A, B, C
C16_Witness ==
    /\ calls.gen
    /\ Len(bpmn_xml.els) = 4
    /\ [i \in 1..4 |-> Get(bpmn_xml.els[i].attrs, "name", "")] = <<"A", "B", "A", "C">>
    /\ \A i \in 1..4 : "id" \in DOMAIN bpmn_xml.els[i].attrs
    /\ calls.asked = <<"A", "B", "C">>

\* C18: a suggestion request on a diagram without a named element calls no
\* service, parses nothing and offers no download: it ends in the "No named
\* tasks" warning; the service is only ever called with a non-empty list of
\* names.
C18_NoNamesNoCall ==
    /\ calls.gen /\ NamedPositions(bpmn_xml.els) = {} =>
          /\ calls.llm = "none"
          /\ shown.suggestion = NoneVal
          /\ MsgNoTasks \in shown.messages
          /\ MsgAiFailed \notin shown.messages
    /\ calls.llm # "none" =>
          /\ calls.asked # <<>>
          /\ NamedPositions(bpmn_xml.els) # {}
    /\ shown.suggestion # NoneVal => calls.llm = "ok"

\* C18 witness: a finished run whose suggestion request found elements but
\* no name
C18_Witness ==
    /\ calls.gen
    /\ calls.end = "finished"
    /\ bpmn_xml.els # <<>>
    /\ MsgNoTasks \in shown.messages
    /\ calls.llm = "none"

\* the place of a section in the script
SectionRank ==
    [ListRoot |-> 1, ListFolder |-> 2, RefreshButton |-> 3, LoadDiagram |-> 4,
     ProbeKpi |-> 5, LoadCsv |-> 6, KpiTable |-> 7, Suggest |-> 8, AutoRefresh |-> 9]

DiagramLoaded == calls.diag \in {"hit", "net-ok"} /\ bpmn_xml # NoneVal

\* each call of the run was made after the calls it depends on succeeded
CallsInOrder ==
    /\ (calls.diag # "none" \/ pc = "LoadDiagram") =>
          /\ calls.root # "none"
          /\ folder \in Range(folders)
          /\ calls.list = "ok"
          /\ bpmn_files # <<>>
          /\ bpmn_name \in Range(bpmn_files)
    /\ (calls.probe # "none" \/ pc \in {"ProbeKpi", "LoadCsv", "KpiTable"}) =>
          DiagramLoaded
    /\ (calls.csv # "none" \/ pc = "LoadCsv") =>
          (DiagramLoaded /\ calls.probe = "true")
    /\ shown.view # NoneVal =>
          /\ DiagramLoaded
          /\ calls.probe \in {"true", "false"}
          /\ calls.probe = "true" => calls.csv # "none"

\* a step from one section to the next of the script (the KPI fetch alone
\* may be left out, after a probe that returned false)
NextSection ==
    /\ pc \in DOMAIN SectionRank
    /\ pc' \in DOMAIN SectionRank
    /\ \/ SectionRank[pc'] = SectionRank[pc] + 1
       \/ (pc = "ProbeKpi" /\ pc' = "KpiTable" /\ calls'.probe = "false")

\* C17: a run walks the sections in script order, each from the one before
\* it, or ends; the diagram is fetched only for a file selected from a
\* non-empty listing, probe and KPI fetch only after the diagram fetch
\* succeeded, and the KPI view is presented only after the probe and, when
\* it returned true, the KPI fetch.
C17_PipelineOrder ==
    /\ []CallsInOrder
    /\ [][ pc' # pc =>
             \/ (pc \in {"Idle", "Sleeping"} /\ pc' = "ListRoot")
             \/ (pc \notin {"Idle", "Sleeping"} /\ pc' \in {"Idle", "Sleeping"})
             \/ NextSection ]_vars

\* C17 witness: a run went through every section, the KPI fetch included
C17_Witness ==
    /\ calls.end = "finished"
    /\ calls.csv # "none"
    /\ shown.view # NoneVal

\* C19: after a failed root listing the folders are DEFAULT_FOLDERS and the
\* run goes on to the folder selection; a run stops at the folder stage
\* exactly when the folder list is empty; a failed listing of the selected
\* folder stops the run with the listing error.
C19_RootFallback ==
    /\ calls.root = "fail" =>
          /\ folders = DEFAULT_FOLDERS
          /\ folder \in Range(DEFAULT_FOLDERS)
          /\ MsgNoFolders \notin shown.messages
          /\ pc = "ListFolder" \/ calls.list # "none"
    /\ MsgNoFolders \in shown.messages <=> calls.root = "ok" /\ folders = <<>>
    /\ calls.root # "none" /\ calls.list = "none" /\ pc # "ListFolder" =>
          /\ folders = <<>>
          /\ Halted(MsgNoFolders)
    /\ calls.list = "fail" =>
          /\ Halted(MsgListError)
          /\ calls.diag = "none"

\* C19 witness: a run whose root listing failed went on and finished
C19_Witness ==
    /\ calls.root = "fail"
    /\ calls.end = "finished"
    /\ shown.view # NoneVal

\* the run reached the end of the script with a nonzero interval
Scheduled == calls.end = "finished" /\ AUTO_REFRESH_SECONDS # 0

\* what starts a run on the user's behalf
UserTriggers == {"user", "refresh", "generate"}

\* C20: the script sleeps for the timed rerun exactly after a run that
\* reached its end with a nonzero interval, and that run is eventually
\* followed by another run; the timer starts a run from nowhere else, so a
\* run after a halted run, or with interval 0, is started by the user.
C20_TimedRerunScheduling ==
    /\ [](pc = "Sleeping" <=> Scheduled)
    /\ [](calls.end \in {"stopped", "crashed"} => pc = "Idle")
    /\ [][ (pc' = "ListRoot" /\ pc # "ListRoot") =>
             IF pc = "Sleeping" /\ Scheduled
             THEN trigger' \in UserTriggers \union {"timed"}
             ELSE trigger' \in UserTriggers ]_vars
    /\ ((pc = "Sleeping") ~> (pc = "ListRoot"))

\* C20 witness: a run the timer started, after a run that finished with a
\* nonzero interval
C20_Witness ==
    /\ trigger = "timed"
    /\ pc = "ListRoot"
    /\ AUTO_REFRESH_SECONDS # 0
====
